---- MODULE Spec2Model ----
(***************************************************************************)
(* The Flask todo API: the todo table (app/models.py), the route handlers  *)
(* (app/routes.py) and the application-wide error handlers                 *)
(* (app/__init__.py), as a state machine whose steps are HTTP requests.    *)
(*                                                                         *)
(* Strings that the code inspects (title, description) are sequences of    *)
(* Unicode code points, so that str.strip() is computed and not assumed.   *)
(* The table is a function from the stored ids to their rows.  The         *)
(* database is the default one of app/config.py, SQLite, whose integer     *)
(* primary key is max(id) + 1.  The clock is the wall clock read by        *)
(* datetime.utcnow, in ticks; it is assumed never to run backwards.        *)
(*                                                                         *)
(* req, resp and calls hold the latest exchange: a request, its response   *)
(* and the storage calls its handler made; the exchange is torn down       *)
(* before the next response is produced.  A handler makes up to three      *)
(* storage round trips: the lookup (update_todo, delete_todo), the commit, *)
(* and the reload of the row that to_dict makes after the commit has       *)
(* expired the object (create_todo, update_todo).  Nothing is held between *)
(* them and the server may serve other requests in between: inflight is    *)
(* the bag of the requests that are between two of their round trips, each *)
(* with what its session holds; a request may also run from start to       *)
(* response with nothing in between.                                       *)
(* Request bodies are JSON objects or null; titles are strings or null.    *)
(***************************************************************************)
EXTENDS Integers, Sequences, FiniteSets, Bags, TLC

VARIABLES todos, clock, req, resp, calls, inflight, served

vars == <<todos, clock, req, resp, calls, inflight, served>>

(***************************************************************************)
(* Bounds of the model: the requests a behaviour accepts (served counts    *)
(* them), the last tick of the clock, and the clock's resolution.          *)
(***************************************************************************)
MaxRequests == 3
MaxClock == 1
TicksPerSecond == 2

(***************************************************************************)
(* JSON null / Python None as a field's value: no code point is negative,  *)
(* so it is distinct from every string.                                    *)
(***************************************************************************)
None == <<-1>>

(* " \r\xa0" and "\x0ca\t" *)
Titles == {<<32, 13, 160>>, <<12, 97, 9>>}

(* "x"; a POST that sends none stores "" *)
Descriptions == {<<120>>}

(***************************************************************************)
(* Python helpers.                                                         *)
(***************************************************************************)
(* Variant: only space, tab and newline taken for whitespace. *)
isspace_ascii(c) == c \in {32, 9, 10}

(* str.isspace() of one character: \t \n \x0b \x0c \r, \x1c-\x1f, space,   *)
(* \x85, \xa0, U+1680, U+2000-U+200A, U+2028, U+2029, U+202F, U+205F,      *)
(* U+3000.                                                                 *)
isspace(c) ==
    c \in (9..13) \cup (28..32) \cup {133, 160, 5760} \cup (8192..8202)
            \cup {8232, 8233, 8239, 8287, 12288}

RECURSIVE lstrip(_)
lstrip(s) == IF s # <<>> /\ isspace(Head(s)) THEN lstrip(Tail(s)) ELSE s

RECURSIVE rstrip(_)
rstrip(s) ==
    IF s # <<>> /\ isspace(s[Len(s)]) THEN rstrip(SubSeq(s, 1, Len(s) - 1)) ELSE s

strip(s) == rstrip(lstrip(s))

(* dict.get(key, default) on a JSON object (a record). *)
Get(data, key, default) == IF key \in DOMAIN data THEN data[key] ELSE default

(* A request body that is the JSON value null: get_json() returns None. *)
NullBody == [null |-> TRUE]

(* `not data`: None and the empty object are falsy. *)
falsy(data) == data = NullBody \/ DOMAIN data = {}

(* datetime.isoformat(): the fraction is left out when it is zero. *)
isoformat(t) ==
    ToString(t \div TicksPerSecond)
        \o (IF t % TicksPerSecond = 0 THEN "" ELSE "." \o ToString(t % TicksPerSecond))

(***************************************************************************)
(* app/models.py                                                           *)
(***************************************************************************)
to_dict(id, row) ==
    [id |-> id,
     title |-> row.title,
     description |-> row.description,
     completed |-> row.completed,
     created_at |-> isoformat(row.created_at) \o "Z",
     updated_at |-> isoformat(row.updated_at) \o "Z"]

(* The row an INSERT writes: completed takes its column default, the two    *)
(* timestamps are two calls of datetime.utcnow, created_at's first.         *)
DefaultCompleted == FALSE

(* Variant: the two timestamps stored the wrong way round. *)
Todo_timestamps_swapped(title, description, t1, t2) ==
    [title |-> title,
     description |-> description,
     completed |-> DefaultCompleted,
     created_at |-> t2,
     updated_at |-> t1]

Todo(title, description, t1, t2) ==
    [title |-> title,
     description |-> description,
     completed |-> DefaultCompleted,
     created_at |-> t1,
     updated_at |-> t2]

Max(S) == CHOOSE m \in S : \A x \in S : x <= m

(* INTEGER PRIMARY KEY of SQLite: one more than the largest stored id. *)
NewId(db) == IF DOMAIN db = {} THEN 1 ELSE Max(DOMAIN db) + 1

(* The ids of a request's path: the stored ones, the ones deleted from     *)
(* among them, and the next one, which stands for every id never given.    *)
PathIds(db) == 1..NewId(db)

(* Variant: updated_at without onupdate. *)
onupdate_never(row, now) == row

(* onupdate=datetime.utcnow: every UPDATE of a row sets its updated_at. *)
onupdate(row, now) == [row EXCEPT !.updated_at = now]

(***************************************************************************)
(* The session.  An object loaded by a lookup keeps the values it was      *)
(* loaded with; the flush of a commit emits an UPDATE only for the         *)
(* attributes assigned a value other than the loaded one, and the UPDATE    *)
(* writes those columns (and updated_at) of the row stored under the id.   *)
(***************************************************************************)
Columns == {"title", "description", "completed"}

net_changes(loaded, assigned) == {k \in Columns : assigned[k] # loaded[k]}

UPDATE(row, assigned, changed, now) ==
    onupdate([k \in DOMAIN row |-> IF k \in changed THEN assigned[k] ELSE row[k]], now)

session_add(pending, id, row) ==
    [i \in DOMAIN pending \cup {id} |-> IF i = id THEN row ELSE pending[i]]

session_delete(pending, id) == [i \in DOMAIN pending \ {id} |-> pending[i]]

(* Variant: a rollback that leaves the pending changes in place. *)
rollback_keeps_pending(committed, pending) == pending

rollback(committed, pending) == committed

(***************************************************************************)
(* app/__init__.py: the application-wide error handlers.                   *)
(***************************************************************************)
not_found_error ==
    [status |-> 404,
     body |-> [success |-> FALSE,
               error |-> "Resource not found",
               message |-> "The requested URL was not found on the server."]]

internal_error ==
    [status |-> 500,
     body |-> [success |-> FALSE,
               error |-> "Internal server error",
               message |-> "An unexpected error has occurred. Please try again later."]]

database_error ==
    [status |-> 500, body |-> [success |-> FALSE, error |-> "Database error"]]

(* What a handler returns: the table, the response, and the storage calls   *)
(* it made in order, a commit being followed by the statement it emitted.   *)
Result(db, r, c) == [todos |-> db, resp |-> r, calls |-> c]

(* A handler whose commit has succeeded and whose answer is still to be    *)
(* built.                                                                  *)
Committed(db, c) == Result(db, [committed |-> TRUE], c)

committed(r) == "committed" \in DOMAIN r.resp

(* A handler left by an exception it does not catch. *)
Raise(db, e, c) == Result(db, [exception |-> e], c)

raised(r) == "exception" \in DOMAIN r.resp

(* An exception that leaves the application: the server's own 500 page, or *)
(* the error raised in the test client; no body of this repository.        *)
unhandled(e) == [status |-> 500, body |-> [traceback |-> e]]

(* Flask propagates an uncaught exception under DEBUG (DevelopmentConfig,  *)
(* the default) and TESTING (TestingConfig); otherwise (ProductionConfig)  *)
(* the handler registered for 500 rolls back and answers.                  *)
handle_exception(r, propagate) ==
    IF ~raised(r) THEN r
    ELSE IF propagate
    THEN Result(r.todos, unhandled(r.resp.exception), r.calls)
    ELSE Result(r.todos, internal_error, Append(r.calls, "rollback"))

Propagation(r) == IF raised(r) THEN BOOLEAN ELSE {FALSE}

(***************************************************************************)
(* app/routes.py                                                           *)
(***************************************************************************)
index ==
    [status |-> 200,
     body |-> [message |-> "Welcome to the Flask Todo API!",
               version |-> "1.0.0",
               endpoints |-> [health |-> "/api/health", todos |-> "/api/todos"]]]

(* Variant: the failed probe answered as an ordinary server error. *)
health_check_500(db, fails) ==
    IF fails
    THEN Result(db,
                [status |-> 500,
                 body |-> [status |-> "unhealthy",
                           database |-> "disconnected",
                           error |-> "probe failed"]],
                <<"execute">>)
    ELSE Result(db,
                [status |-> 200,
                 body |-> [status |-> "healthy", database |-> "connected"]],
                <<"execute">>)

health_check(db, fails) ==
    IF fails
    THEN Result(db,
                [status |-> 503,
                 body |-> [status |-> "unhealthy",
                           database |-> "disconnected",
                           error |-> "probe failed"]],
                <<"execute">>)
    ELSE Result(db,
                [status |-> 200,
                 body |-> [status |-> "healthy", database |-> "connected"]],
                <<"execute">>)

(* Variant: ascending order. *)
order_by_created_at_asc(db) ==
    {s \in [1..Cardinality(DOMAIN db) -> DOMAIN db] :
        /\ \A i, j \in DOMAIN s : i # j => s[i] # s[j]
        /\ \A i, j \in DOMAIN s : i < j => db[s[i]].created_at <= db[s[j]].created_at}

(* Query.order_by(Todo.created_at.desc()).all(): the stored ids in an order *)
(* of non-increasing created_at; rows of equal created_at come in any order.*)
order_by_created_at_desc(db) ==
    {s \in [1..Cardinality(DOMAIN db) -> DOMAIN db] :
        /\ \A i, j \in DOMAIN s : i # j => s[i] # s[j]
        /\ \A i, j \in DOMAIN s : i < j => db[s[i]].created_at >= db[s[j]].created_at}

get_todos(db, order, fails) ==
    IF fails
    THEN Result(db, database_error, <<"select">>)
    ELSE Result(db,
                [status |-> 200,
                 body |-> [success |-> TRUE,
                           count |-> Len(order),
                           data |-> [i \in DOMAIN order |-> to_dict(order[i], db[order[i]])]]],
                <<"select">>)

title_required ==
    [status |-> 400, body |-> [success |-> FALSE, error |-> "Title is required"]]

(* not data or 'title' not in data or not data['title'].strip(), for a      *)
(* title that is a string.                                                  *)
title_missing(data) ==
    \/ falsy(data)
    \/ "title" \notin DOMAIN data
    \/ (data.title # None /\ strip(data.title) = <<>>)

(* create_todo up to its commit. *)
create_commit(db, data, t1, t2, fails) ==
    IF title_missing(data)
    THEN Result(db, title_required, <<>>)
    ELSE IF data.title = None
    THEN \* None.strip() raises AttributeError, before the try
         Raise(db, "AttributeError", <<>>)
    ELSE LET id == NewId(db)
             new_todo == Todo(data.title, Get(data, "description", <<>>), t1, t2)
             pending == session_add(db, id, new_todo)
         IN  IF fails
             THEN Result(rollback(db, pending), database_error,
                         <<"add", "commit", "rollback">>)
             ELSE Committed(pending, <<"add", "commit", "INSERT">>)

(* create_todo after its commit: the commit has expired new_todo, so        *)
(* to_dict reloads the row of its id, and raises ObjectDeletedError (an     *)
(* SQLAlchemyError) when there is none.                                     *)
create_answer(db, id, c) ==
    IF id \notin DOMAIN db
    THEN Result(rollback(db, db), database_error, c \o <<"reload", "rollback">>)
    ELSE Result(db,
                [status |-> 201,
                 body |-> [success |-> TRUE,
                           data |-> to_dict(id, db[id]),
                           message |-> "Todo created successfully"]],
                Append(c, "reload"))

(* create_todo with no other request served before it answers. *)
create_todo(db, data, t1, t2, fails) ==
    LET r == create_commit(db, data, t1, t2, fails)
    IN  IF committed(r) THEN create_answer(r.todos, NewId(db), r.calls) ELSE r

get_todo(db, id) ==
    IF id \notin DOMAIN db
    THEN Result(db, not_found_error, <<"get">>)
    ELSE Result(db,
                [status |-> 200,
                 body |-> [success |-> TRUE, data |-> to_dict(id, db[id])]],
                <<"get">>)

(* The three assignments of update_todo, to the object as it was loaded. *)
assign_fields(todo, data) ==
    [todo EXCEPT !.title = Get(data, "title", todo.title),
                 !.description = Get(data, "description", todo.description),
                 !.completed = Get(data, "completed", todo.completed)]

(* update_todo from its lookup to its commit: loaded is the row            *)
(* get_or_404 returned, db the table at the commit.  The commit raises an  *)
(* SQLAlchemyError when the failure is injected, and when its UPDATE finds *)
(* no row (StaleDataError) or sets title to null (NOT NULL).               *)
update_commit(db, id, loaded, data, now, fails) ==
    IF data = NullBody
    THEN \* None.get raises AttributeError, which the except clause lets pass
         Raise(db, "AttributeError", <<"get">>)
    ELSE LET assigned == assign_fields(loaded, data)
             changed == net_changes(loaded, assigned)
             pending == IF changed # {} /\ id \in DOMAIN db
                        THEN session_add(db, id, UPDATE(db[id], assigned, changed, now))
                        ELSE db
         IN  IF \/ fails
                \/ changed # {} /\ id \notin DOMAIN db
                \/ "title" \in changed /\ assigned.title = None
             THEN Result(rollback(db, pending), database_error,
                         <<"get", "commit", "rollback">>)
             ELSE Committed(pending,
                            IF changed = {}
                            THEN <<"get", "commit">>
                            ELSE <<"get", "commit", "UPDATE">>)

(* update_todo after its commit: to_dict reloads the expired row, and      *)
(* raises ObjectDeletedError (an SQLAlchemyError) when it is gone.         *)
update_answer(db, id, c) ==
    IF id \notin DOMAIN db
    THEN Result(rollback(db, db), database_error, c \o <<"reload", "rollback">>)
    ELSE Result(db,
                [status |-> 200,
                 body |-> [success |-> TRUE,
                           data |-> to_dict(id, db[id]),
                           message |-> "Todo updated successfully"]],
                Append(c, "reload"))

(* update_todo with no other request served before it answers. *)
update_todo(db, id, data, now, fails) ==
    IF id \notin DOMAIN db
    THEN Result(db, not_found_error, <<"get">>)
    ELSE LET r == update_commit(db, id, db[id], data, now, fails)
         IN  IF committed(r) THEN update_answer(r.todos, id, r.calls) ELSE r

(* delete_todo after its lookup: a DELETE that finds no row only warns. *)
delete_commit(db, id, fails) ==
    LET pending == session_delete(db, id)
    IN  IF fails
        THEN Result(rollback(db, pending), database_error,
                    <<"get", "delete", "commit", "rollback">>)
        ELSE Result(pending,
                    [status |-> 200,
                     body |-> [success |-> TRUE,
                               message |-> "Todo deleted successfully"]],
                    <<"get", "delete", "commit", "DELETE">>)

delete_todo(db, id, fails) ==
    IF id \notin DOMAIN db
    THEN Result(db, not_found_error, <<"get">>)
    ELSE delete_commit(db, id, fails)

(***************************************************************************)
(* Requests.                                                               *)
(***************************************************************************)
Request(method, id, data, fails) ==
    [method |-> method, id |-> id, data |-> data, fails |-> fails]

NoBody == [k \in {} |-> <<>>]

(* The JSON objects a client sends: each key present or absent. *)
Merge(a, b) ==
    [k \in DOMAIN a \cup DOMAIN b |-> IF k \in DOMAIN a THEN a[k] ELSE b[k]]

TitlePart == {NoBody} \cup {[title |-> t] : t \in Titles \cup {None}}
DescriptionPart == {NoBody} \cup {[description |-> d] : d \in Descriptions}
CompletedPart == {NoBody} \cup {[completed |-> c] : c \in BOOLEAN}

(* A POST is also sent the empty title "". *)
PostBodies ==
    {NullBody} \cup
    {Merge(t, d) : t \in TitlePart \cup {[title |-> <<>>]}, d \in DescriptionPart}

PutBodies ==
    {NullBody} \cup
    {Merge(Merge(t, d), c) : t \in TitlePart, d \in DescriptionPart, c \in CompletedPart}

NoRequest == Request("NONE", 0, NoBody, FALSE)

NoResponse == [status |-> 0, body |-> NoBody]

(* A request between two of its storage round trips: after its lookup     *)
(* ("looked", todo the row a PUT loaded) or after its commit ("committed", *)
(* the object expired, only its id kept).                                  *)
Inflight(method, id, phase, data, todo, c) ==
    [method |-> method, id |-> id, phase |-> phase, data |-> data,
     todo |-> todo, calls |-> c]

(* The requests in flight; the one that takes a step leaves the bag, or    *)
(* stays in it in its next phase.                                          *)
Parked == BagToSet(inflight)

Park(r) == inflight' = inflight (+) SetToBag({r})

Unpark(r) == inflight' = inflight (-) SetToBag({r})

Repark(r, next) == inflight' = (inflight (-) SetToBag({r})) (+) SetToBag({next})

(* No exchange is held. *)
Idle == req = NoRequest

(* A request is accepted: its handler starts. *)
Accept ==
    /\ served < MaxRequests
    /\ served' = served + 1

(* A handler runs to its response; an exception it lets pass is Flask's. *)
Respond(r, rq) ==
    /\ Idle
    /\ req' = rq
    /\ \E propagate \in Propagation(r) :
           LET h == handle_exception(r, propagate)
           IN  /\ todos' = h.todos
               /\ resp' = h.resp
               /\ calls' = h.calls

Init ==
    /\ todos = [i \in {} |-> 0]
    /\ clock = 0
    /\ req = NoRequest
    /\ resp = NoResponse
    /\ calls = <<>>
    /\ inflight = EmptyBag
    /\ served = 0

(* Time passes between requests. *)
Tick ==
    /\ Idle
    /\ clock < MaxClock
    /\ clock' = clock + 1
    /\ UNCHANGED <<todos, req, resp, calls, inflight, served>>

(* The response is sent and the request's context torn down; handlers keep  *)
(* nothing between requests.                                                *)
Teardown ==
    /\ ~Idle
    /\ req' = NoRequest
    /\ resp' = NoResponse
    /\ calls' = <<>>
    /\ UNCHANGED <<todos, clock, inflight, served>>

HealthCheck ==
    \E fails \in BOOLEAN :
        /\ Accept
        /\ Respond(health_check(todos, fails), Request("HEALTH", 0, NoBody, fails))
        /\ UNCHANGED <<clock, inflight>>

GetTodos ==
    \E fails \in BOOLEAN, order \in order_by_created_at_desc(todos) :
        /\ Accept
        /\ Respond(get_todos(todos, order, fails), Request("LIST", 0, NoBody, fails))
        /\ UNCHANGED <<clock, inflight>>

(* A POST served with no other request before it answers.  The clock may  *)
(* advance between the two timestamps of the INSERT.                       *)
CreateTodo ==
    \E data \in PostBodies, fails \in BOOLEAN, d \in 0..1 :
        /\ Accept
        /\ clock + d <= MaxClock
        /\ LET r == create_todo(todos, data, clock, clock + d, fails)
           IN  /\ Respond(r, Request("POST", 0, data, fails))
               /\ clock' = IF DOMAIN r.todos # DOMAIN todos THEN clock + d ELSE clock
        /\ UNCHANGED inflight

(* A POST commits its INSERT; its answer is built later. *)
CommitCreate ==
    /\ Idle
    /\ Accept
    /\ \E data \in PostBodies, d \in 0..1 :
           /\ clock + d <= MaxClock
           /\ LET r == create_commit(todos, data, clock, clock + d, FALSE)
                  id == NewId(todos)
              IN  /\ committed(r)
                  /\ todos' = r.todos
                  /\ Park(Inflight("POST", id, "committed", data, NoBody, r.calls))
           /\ clock' = clock + d
    /\ UNCHANGED <<req, resp, calls>>

(* The answer of a POST that has committed. *)
AnswerCreate ==
    \E r \in Parked :
        /\ r.method = "POST"
        /\ Respond(create_answer(todos, r.id, r.calls), Request("POST", 0, r.data, FALSE))
        /\ Unpark(r)
        /\ UNCHANGED <<clock, served>>

GetTodo ==
    \E id \in PathIds(todos) :
        /\ Accept
        /\ Respond(get_todo(todos, id), Request("GET", id, NoBody, FALSE))
        /\ UNCHANGED <<clock, inflight>>

(* A PUT served with no other request before it answers.  When the id is   *)
(* not stored, get_or_404 answers before the body is read and before any   *)
(* commit: one body stands for all.                                        *)
UpdateTodo ==
    \E id \in PathIds(todos) :
    \E data \in IF id \in DOMAIN todos THEN PutBodies ELSE {[title |-> <<12, 97, 9>>]},
       fails \in IF id \in DOMAIN todos THEN BOOLEAN ELSE {FALSE} :
        /\ Accept
        /\ Respond(update_todo(todos, id, data, clock, fails),
                   Request("PUT", id, data, fails))
        /\ UNCHANGED <<clock, inflight>>

(* A DELETE served with no other request between its lookup and its commit. *)
DeleteTodo ==
    \E id \in PathIds(todos) :
    \E fails \in IF id \in DOMAIN todos THEN BOOLEAN ELSE {FALSE} :
        /\ Accept
        /\ Respond(delete_todo(todos, id, fails), Request("DELETE", id, NoBody, fails))
        /\ UNCHANGED <<clock, inflight>>

(* Todo.query.get_or_404(id) of a PUT or DELETE finds the row; the rest of  *)
(* the handler runs later.                                                  *)
Lookup ==
    /\ Idle
    /\ Accept
    /\ \E method \in {"PUT", "DELETE"}, id \in DOMAIN todos :
           Park(Inflight(method, id, "looked", NoBody,
                         IF method = "PUT" THEN todos[id] ELSE NoBody, <<"get">>))
    /\ UNCHANGED <<todos, clock, req, resp, calls>>

(* A PUT that has done its lookup assigns and commits: it answers at once   *)
(* when that raises, and builds its answer later when the commit succeeds.  *)
CommitUpdate ==
    \E p \in Parked, data \in PutBodies, fails \in BOOLEAN :
        /\ p.method = "PUT"
        /\ p.phase = "looked"
        /\ LET r == update_commit(todos, p.id, p.todo, data, clock, fails)
           IN  IF committed(r)
               THEN /\ Idle
                    /\ todos' = r.todos
                    /\ Repark(p, Inflight("PUT", p.id, "committed", data, NoBody, r.calls))
                    /\ UNCHANGED <<req, resp, calls>>
               ELSE /\ Respond(r, Request("PUT", p.id, data, fails))
                    /\ Unpark(p)
        /\ UNCHANGED <<clock, served>>

(* The answer of a PUT that has committed. *)
AnswerUpdate ==
    \E p \in Parked :
        /\ p.method = "PUT"
        /\ p.phase = "committed"
        /\ Respond(update_answer(todos, p.id, p.calls), Request("PUT", p.id, p.data, FALSE))
        /\ Unpark(p)
        /\ UNCHANGED <<clock, served>>

(* The rest of delete_todo; its answer reads nothing. *)
FinishDelete ==
    \E p \in Parked, fails \in BOOLEAN :
        /\ p.method = "DELETE"
        /\ Respond(delete_commit(todos, p.id, fails), Request("DELETE", p.id, NoBody, fails))
        /\ Unpark(p)
        /\ UNCHANGED <<clock, served>>

(* GET /: the API's root. *)
Index ==
    /\ Accept
    /\ Respond(Result(todos, index, <<>>), Request("INDEX", 0, NoBody, FALSE))
    /\ UNCHANGED <<clock, inflight>>

(* A URL no route matches: the 404 handler answers. *)
UnknownRoute ==
    /\ Accept
    /\ Respond(Result(todos, not_found_error, <<>>), Request("OTHER", 0, NoBody, FALSE))
    /\ UNCHANGED <<clock, inflight>>

Next ==
    \/ Tick
    \/ Teardown
    \/ Index
    \/ HealthCheck
    \/ GetTodos
    \/ CreateTodo
    \/ CommitCreate
    \/ AnswerCreate
    \/ GetTodo
    \/ UpdateTodo
    \/ DeleteTodo
    \/ Lookup
    \/ CommitUpdate
    \/ AnswerUpdate
    \/ FinishDelete
    \/ UnknownRoute

Spec == Init /\ [][Next]_vars

(***************************************************************************)
(* Properties.  A handler's step starts from Idle, so in an action formula *)
(* todos is the table before the request and req', resp', calls', todos'   *)
(* are the request, its response, its storage calls and the table after.   *)
(***************************************************************************)
Handled(m) == Idle /\ req'.method = m

(* The characters Unicode classes as whitespace (White_Space, and the four *)
(* separators U+001C-U+001F that Python counts with them).                 *)
Whitespace ==
    {9, 10, 11, 12, 13, 28, 29, 30, 31, 32, 133, 160, 5760,
     8192, 8193, 8194, 8195, 8196, 8197, 8198, 8199, 8200, 8201, 8202,
     8232, 8233, 8239, 8287, 12288}

Blank(t) == \A i \in 1..Len(t) : t[i] \in Whitespace

Fields(row) == <<row.title, row.description, row.completed>>

Without(db, id) == [i \in DOMAIN db \ {id} |-> db[i]]

(* C1: in every reachable state every stored todo has a title that is not  *)
(* blank (non-empty after trimming whitespace), PUT included.              *)
C1_TitleNeverBlank ==
    \A id \in DOMAIN todos : ~Blank(todos[id].title)

(* C2: a POST whose body is empty, has no title key, or has a title that   *)
(* is blank after trimming is answered 400, leaves the table as it was and *)
(* makes no storage call.                                                  *)
C2_InvalidBody(data) ==
    \/ data = NullBody
    \/ DOMAIN data = {}
    \/ "title" \notin DOMAIN data
    \/ (data.title # None /\ Blank(data.title))

C2_InvalidPostRejected ==
    [][(Handled("POST") /\ C2_InvalidBody(req'.data))
          => (resp'.status = 400 /\ todos' = todos /\ calls' = <<>>)]_vars

C2_Witness ==
    /\ req.method = "POST"
    /\ "title" \in DOMAIN req.data
    /\ req.data.title = <<32, 13, 160>>
    /\ resp.status = 400
    /\ DOMAIN todos # {}

(* C3: a successful PUT stores every field present in the body (false      *)
(* included), keeps every field absent from it, and leaves the other todos *)
(* as they were.                                                           *)
C3_PartialUpdate ==
    [][(Handled("PUT") /\ resp'.status = 200)
          => LET id == req'.id
                 data == req'.data
             IN  /\ id \in DOMAIN todos
                 /\ DOMAIN todos' = DOMAIN todos
                 /\ todos'[id].title =
                        IF "title" \in DOMAIN data THEN data.title ELSE todos[id].title
                 /\ todos'[id].description =
                        IF "description" \in DOMAIN data
                        THEN data.description
                        ELSE todos[id].description
                 /\ todos'[id].completed =
                        IF "completed" \in DOMAIN data
                        THEN data.completed
                        ELSE todos[id].completed
                 /\ \A other \in DOMAIN todos \ {id} : todos'[other] = todos[other]]_vars

(* C4: GET, PUT and DELETE of an id that is not stored are answered 404    *)
(* and leave the table as it was; a successful DELETE removes exactly the  *)
(* todo of that id; an id comes (back) into the table only by the commit  *)
(* of a POST.                                                              *)
C4_NotFoundAndDelete ==
    [][/\ ((Handled("GET") \/ Handled("PUT") \/ Handled("DELETE"))
              /\ req'.id \notin DOMAIN todos)
          => (resp'.status = 404 /\ todos' = todos)
       /\ (Handled("DELETE") /\ resp'.status = 200)
          => (req'.id \in DOMAIN todos /\ todos' = Without(todos, req'.id))
       /\ (DOMAIN todos' \ DOMAIN todos # {})
          => \/ Handled("POST") /\ resp'.status = 201
             \/ \E p \in BagToSet(inflight') :
                    p.method = "POST" /\ inflight' = inflight (+) SetToBag({p})]_vars

(* C5: when the commit of a POST, PUT or DELETE fails, the handler rolls   *)
(* back and answers 500, and the table is the one before the request.  A   *)
(* commit fails when the storage engine fails, when a PUT sets title to    *)
(* null, and when the row a PUT has changes for is gone by the time it     *)
(* commits.                                                                *)
C5_CommitFailed ==
    /\ req'.method \in {"POST", "PUT", "DELETE"}
    /\ "commit" \in {calls'[i] : i \in DOMAIN calls'}
    /\ \/ req'.fails
       \/ "title" \in DOMAIN req'.data /\ req'.data.title = None
       \/ /\ req'.method = "PUT"
          /\ req'.id \notin DOMAIN todos
          /\ \E p \in BagToSet(inflight) :
                 /\ p.method = "PUT"
                 /\ p.phase = "looked"
                 /\ p.id = req'.id
                 /\ inflight' = inflight (-) SetToBag({p})
                 /\ \E k \in DOMAIN req'.data \cap Columns : req'.data[k] # p.todo[k]

C5_RollbackOnFailure ==
    [][(Idle /\ C5_CommitFailed)
          => /\ resp'.status = 500
             /\ resp'.body.success = FALSE
             /\ calls'[Len(calls')] = "rollback"
             /\ todos' = todos]_vars

C5_Witness ==
    /\ req.method = "PUT"
    /\ req.fails
    /\ resp.status = 500
    /\ calls = <<"get", "commit", "rollback">>
    /\ DOMAIN req.data = {"title", "completed"}
    /\ todos[req.id].title # req.data.title
    /\ todos[req.id].completed # req.data.completed

(* C6: a listing whose query succeeds is answered 200 with the stored      *)
(* todos, each once, count being their number, in an order of              *)
(* non-increasing created_at.                                              *)
C6_ListNewestFirst ==
    (req.method = "LIST" /\ ~req.fails)
        => LET data == resp.body.data
           IN  /\ resp.status = 200
               /\ resp.body.success = TRUE
               /\ resp.body.count = Cardinality(DOMAIN todos)
               /\ Len(data) = resp.body.count
               /\ {data[i].id : i \in DOMAIN data} = DOMAIN todos
               /\ \A i \in DOMAIN data : data[i] = to_dict(data[i].id, todos[data[i].id])
               /\ \A i, j \in DOMAIN data :
                      i < j => todos[data[i].id].created_at >= todos[data[j].id].created_at

C6_Witness ==
    /\ req.method = "LIST"
    /\ resp.status = 200
    /\ resp.body.count = 2
    /\ resp.body.data[1].id = 2
    /\ todos[1].created_at < todos[2].created_at
    /\ todos[1].updated_at >= todos[2].updated_at

(* C7: after a POST answered 201, GET of the returned id is answered 200   *)
(* with the title and description sent (the empty string when none was     *)
(* sent) and completed false.  As stated, created_at equals updated_at.    *)
C7_Fetched == get_todo(todos, resp.body.data.id).resp

C7_RoundTripEqualTimestamps ==
    (req.method = "POST" /\ resp.status = 201)
        => /\ C7_Fetched.status = 200
           /\ C7_Fetched.body.data.title = req.data.title
           /\ C7_Fetched.body.data.description = Get(req.data, "description", <<>>)
           /\ C7_Fetched.body.data.completed = FALSE
           /\ C7_Fetched.body.data.created_at = C7_Fetched.body.data.updated_at

(* C7, amended: a POST answered 201 and then GET of the returned id, no     *)
(* other request being served between the POST's commit and the GET, gives *)
(* 200 with the title and description sent (the empty string when none was *)
(* sent) and completed false; created_at and updated_at are two readings   *)
(* of the clock taken in that order by the INSERT, so created_at is at     *)
(* most updated_at.  Whatever was served in between, the GET gives what    *)
(* the 201 carried.                                                        *)
C7_RoundTrip ==
    [][/\ \A id \in DOMAIN todos' \ DOMAIN todos :
              /\ clock <= todos'[id].created_at
              /\ todos'[id].created_at <= todos'[id].updated_at
              /\ todos'[id].updated_at <= clock'
       /\ (Handled("POST") /\ resp'.status = 201)
          => LET id == resp'.body.data.id
                 got == get_todo(todos', id).resp
             IN  /\ got.status = 200
                 /\ got.body.data = resp'.body.data
                 /\ got.body.data.id = id
                 /\ got.body.data.created_at = isoformat(todos'[id].created_at) \o "Z"
                 /\ got.body.data.updated_at = isoformat(todos'[id].updated_at) \o "Z"
                 /\ DOMAIN todos' # DOMAIN todos
                       => /\ got.body.data.title = req'.data.title
                          /\ got.body.data.description =
                                 Get(req'.data, "description", <<>>)
                          /\ got.body.data.completed = FALSE]_vars

C7_Witness ==
    /\ req.method = "POST"
    /\ resp.status = 201
    /\ DOMAIN req.data = {"title"}
    /\ resp.body.data.description = <<>>
    /\ resp.body.data.created_at # resp.body.data.updated_at

(* C8: every error response (400, 404, 500 or 503), the health check's 503 *)
(* included, carries success: false with an error or message field.        *)
C8_EveryErrorHasSuccessFalse ==
    resp.status \in {400, 404, 500, 503}
        => /\ "success" \in DOMAIN resp.body
           /\ resp.body.success = FALSE
           /\ {"error", "message"} \cap DOMAIN resp.body # {}

(* C9: no request changes the created_at of a stored todo; a stored todo   *)
(* changes only by the commit of a PUT of its id, which sets updated_at to *)
(* the current time; a PUT answered 200 answers with the id it was given;  *)
(* and updated_at >= created_at for every stored todo.                     *)
C9_Timestamps ==
    [][/\ \A id \in DOMAIN todos' : todos'[id].updated_at >= todos'[id].created_at
       /\ \A id \in DOMAIN todos \cap DOMAIN todos' :
              /\ todos'[id].created_at = todos[id].created_at
              /\ todos'[id] # todos[id]
                    => /\ todos'[id].updated_at = clock'
                       /\ \/ Handled("PUT") /\ req'.id = id
                          \/ \E p \in BagToSet(inflight) :
                                 /\ p.method = "PUT"
                                 /\ p.phase = "looked"
                                 /\ p.id = id
                                 /\ inflight' # inflight
       /\ (Handled("PUT") /\ resp'.status = 200)
          => resp'.body.data.id = req'.id]_vars

C9_Witness ==
    /\ req.method = "PUT"
    /\ resp.status = 200
    /\ calls = <<"get", "commit", "UPDATE", "reload">>
    /\ todos[req.id].created_at = 0
    /\ todos[req.id].updated_at = 1

(* C10: the health check answers 200, healthy and connected, when the      *)
(* probe succeeds, and 503, unhealthy and disconnected with an error       *)
(* field, when the probe raises; the table stays as it was.                *)
C10_HealthCheck ==
    [][Handled("HEALTH")
          => /\ todos' = todos
             /\ IF req'.fails
                THEN /\ resp'.status = 503
                     /\ resp'.body.status = "unhealthy"
                     /\ resp'.body.database = "disconnected"
                     /\ "error" \in DOMAIN resp'.body
                ELSE /\ resp'.status = 200
                     /\ resp'.body.status = "healthy"
                     /\ resp'.body.database = "connected"]_vars

C10_Witness ==
    /\ req.method = "HEALTH"
    /\ req.fails
    /\ resp.status = 503
    /\ DOMAIN todos # {}

====
